---- MODULE Spec2Model ----
(***************************************************************************)
(* Model of escaperoom-servertui (src/main.rs): the App state, the two     *)
(* pump threads that feed child output through App::process_log, the       *)
(* supervisor that spawns the child, and the render loop with its          *)
(* navigation commands, quit flag and cleanup.                             *)
(*                                                                         *)
(* A raw line is a sequence of segments.  A segment is one occurrence of   *)
(* a piece of text one of the four regexes (or the readiness substring)    *)
(* can match, or text that matches nothing.  The regex operators below     *)
(* search a line the way Regex::captures does: leftmost occurrence, with   *)
(* the http pattern anchored at the start of the line.                     *)
(***************************************************************************)
EXTENDS Integers, Sequences, FiniteSets, TLC

\* ---------------------------------------------------------------- bounds
\* lines a child with pattern-bearing output writes in total
MaxRich == 2
\* lines a child with pattern-free output writes in total
MaxPlain == 12
\* of those, at most this many on stderr
MaxPlainErr == 1
\* lines a child with pattern-free output on stdout only writes
MaxLong == 15
\* lines the child of the fair specification writes
MaxLive == 2

\* ------------------------------------------------------ program constants
\* the literal 10 of process_log's auto-scroll and of the scroll_* methods
VIEWPORT == 10
\* the placeholder address of a registered-only puzzle
WAITING == "Waiting..."

\* ------------------------------------------------------------- segments
Seg(k, a, b) == [k |-> k, a |-> a, b |-> b]
\* "Serving at port 8080"
Ready == Seg("ready", "", "")
\* {'name': 'n', ... 'ip': 'i'
Dict(n, i) == Seg("dict", n, i)
\* "Registering new puzzle n"
Reg(n) == Seg("reg", n, "")
\* "i - -"
Http(i) == Seg("http", i, "")
\* "Received message from ('i',"
Msg(i) == Seg("msg", i, "")
\* text no pattern matches
Text == Seg("text", "", "")
\* the literal "[STDERR] " that format! puts in front of a stderr line
StderrTag == Seg("tag", "", "")

\* the lines a child with pattern-bearing output can write
RichLines ==
    { <<Ready>>,
      <<Dict("n1", "a1")>>,
      <<Dict("n1", "a2")>>,
      <<Reg("n1")>>,
      <<Reg("n2"), Dict("n1", "a2")>>,
      <<Http("a1"), Msg("a2")>>,
      <<Text, Msg("a2")>>,
      <<Text, Http("a1")>> }

\* the lines a child with pattern-free output can write
PlainLines == { <<Text>> }

\* the kinds of child the model is run against
ChildProfiles ==
    { [vocab |-> RichLines,  total |-> MaxRich,  stderr |-> MaxRich],
      [vocab |-> PlainLines, total |-> MaxPlain, stderr |-> MaxPlainErr],
      [vocab |-> PlainLines, total |-> MaxLong,  stderr |-> 0],
      [vocab |-> PlainLines, total |-> MaxLive,  stderr |-> MaxLive] }

\* the key events main tells apart; "other" is any key of the _ arm
Keys == {"q", "Esc", "Ctrl-c", "Up", "Down", "PageUp", "PageDown", "Home",
         "End", "other"}
QuitKeys == {"q", "Esc", "Ctrl-c"}
NoKey == "none"

Threads == {"main", "stdout", "stderr"}
Pumps == {"stdout", "stderr"}
NoLine == <<>>
NoCaps == <<>>

\* --------------------------------------------------------------- regexes
\* index of the leftmost segment of kind k in raw, 0 when there is none
Find(raw, k) ==
    IF \E i \in 1..Len(raw) : raw[i].k = k
    THEN CHOOSE i \in 1..Len(raw) :
             /\ raw[i].k = k
             /\ \A j \in 1..(i - 1) : raw[j].k # k
    ELSE 0

\* raw_line.contains("Serving at port 8080")
contains_ready(raw) == Find(raw, "ready") # 0

\* puzzle_dict_regex.captures(&raw_line): <<name, ip>> or NoCaps
puzzle_dict_regex(raw) ==
    IF Find(raw, "dict") = 0 THEN NoCaps
    ELSE <<raw[Find(raw, "dict")].a, raw[Find(raw, "dict")].b>>

\* puzzle_reg_regex.captures(&raw_line): <<name>> or NoCaps
puzzle_reg_regex(raw) ==
    IF Find(raw, "reg") = 0 THEN NoCaps
    ELSE <<raw[Find(raw, "reg")].a>>

\* http_client_regex.captures(&raw_line): anchored with ^ at the line start
http_client_regex(raw) ==
    IF Len(raw) > 0 /\ raw[1].k = "http" THEN <<raw[1].a>> ELSE NoCaps

\* msg_client_regex.captures(&raw_line)
msg_client_regex(raw) ==
    IF Find(raw, "msg") = 0 THEN NoCaps
    ELSE <<raw[Find(raw, "msg")].a>>

\* ------------------------------------------------- process_log, by parts
\* HashMap::insert: add or overwrite the entry of key n
MapInsert(m, n, v) == [x \in DOMAIN m \cup {n} |-> IF x = n THEN v ELSE m[x]]

\* HashMap::entry(n).or_insert(v): add the entry only when n is absent
MapOrInsert(m, n, v) == IF n \in DOMAIN m THEN m ELSE MapInsert(m, n, v)

Puzzle(n, i) == [name |-> n, ip |-> i]

\* Scanned as the display line: the prefix is added before the patterns run
ScannedDisplay(raw, is_stderr) == IF is_stderr THEN <<StderrTag>> \o raw ELSE raw

\* the text process_log runs contains() and the four regexes on: raw_line
Scanned(raw, is_stderr) == raw

\* ReadyAfter as self.server_ready = raw_line.contains(..)
ReadyAssigned(ready, raw) == contains_ready(raw)

\* if raw_line.contains(..) { self.server_ready = true }
ReadyAfter(ready, raw) == IF contains_ready(raw) THEN TRUE ELSE ready

\* PuzzlesAfter with insert in the registration arm too
PuzzlesAfterRegOverwrites(m, raw) ==
    IF puzzle_dict_regex(raw) # NoCaps
    THEN MapInsert(m, puzzle_dict_regex(raw)[1],
                   Puzzle(puzzle_dict_regex(raw)[1], puzzle_dict_regex(raw)[2]))
    ELSE IF puzzle_reg_regex(raw) # NoCaps
    THEN MapInsert(m, puzzle_reg_regex(raw)[1],
                   Puzzle(puzzle_reg_regex(raw)[1], WAITING))
    ELSE m

\* PuzzlesAfter with entry().or_insert() in the full-record arm too
PuzzlesAfterDictKeepsOld(m, raw) ==
    IF puzzle_dict_regex(raw) # NoCaps
    THEN MapOrInsert(m, puzzle_dict_regex(raw)[1],
                     Puzzle(puzzle_dict_regex(raw)[1], puzzle_dict_regex(raw)[2]))
    ELSE IF puzzle_reg_regex(raw) # NoCaps
    THEN MapOrInsert(m, puzzle_reg_regex(raw)[1],
                     Puzzle(puzzle_reg_regex(raw)[1], WAITING))
    ELSE m

\* PuzzlesAfter with two separate ifs instead of if / else if
PuzzlesAfterBothArms(m, raw) ==
    LET m1 == IF puzzle_dict_regex(raw) # NoCaps
              THEN MapInsert(m, puzzle_dict_regex(raw)[1],
                             Puzzle(puzzle_dict_regex(raw)[1],
                                    puzzle_dict_regex(raw)[2]))
              ELSE m
    IN  IF puzzle_reg_regex(raw) # NoCaps
        THEN MapOrInsert(m1, puzzle_reg_regex(raw)[1],
                         Puzzle(puzzle_reg_regex(raw)[1], WAITING))
        ELSE m1

\* the if / else if over puzzle_dict_regex and puzzle_reg_regex
PuzzlesAfter(m, raw) ==
    IF puzzle_dict_regex(raw) # NoCaps
    THEN MapInsert(m, puzzle_dict_regex(raw)[1],
                   Puzzle(puzzle_dict_regex(raw)[1], puzzle_dict_regex(raw)[2]))
    ELSE IF puzzle_reg_regex(raw) # NoCaps
    THEN MapOrInsert(m, puzzle_reg_regex(raw)[1],
                     Puzzle(puzzle_reg_regex(raw)[1], WAITING))
    ELSE m

\* the if / else if over http_client_regex and msg_client_regex
ClientsAfter(c, raw) ==
    IF http_client_regex(raw) # NoCaps THEN c \cup {http_client_regex(raw)[1]}
    ELSE IF msg_client_regex(raw) # NoCaps THEN c \cup {msg_client_regex(raw)[1]}
    ELSE c

\* display_line: format!("[STDERR] {}", raw_line) for stderr, raw_line else
DisplayLine(raw, is_stderr) == IF is_stderr THEN <<StderrTag>> \o raw ELSE raw

\* Push as self.logs.insert(0, display_line)
PushFront(l, display_line) == <<display_line>> \o l

\* Push into a log capped at VIEWPORT entries, dropping the oldest
PushCapped(l, display_line) ==
    IF Len(l) >= VIEWPORT THEN Append(Tail(l), display_line)
    ELSE Append(l, display_line)

\* self.logs.push(display_line)
Push(l, display_line) == Append(l, display_line)

\* usize::saturating_sub
SatSub(a, b) == IF a > b THEN a - b ELSE 0

Min(a, b) == IF a < b THEN a ELSE b

\* AutoScroll that follows only when the cursor was at the bottom
AutoScrollIfAtBottom(pos, len) ==
    IF pos = SatSub(len - 1, VIEWPORT)
    THEN (IF len > VIEWPORT THEN len - VIEWPORT ELSE 0)
    ELSE pos

\* the auto-scroll of process_log: pos is the cursor before the call, len
\* the log length after the push
AutoScroll(pos, len) == IF len > VIEWPORT THEN len - VIEWPORT ELSE 0

\* ------------------------------------------------------------ navigation
\* scroll_up that wraps around to the bottom at the top
scroll_up_wraps(pos, len) ==
    IF pos > 0 THEN pos - 1 ELSE SatSub(len, VIEWPORT)

scroll_up(pos, len) == IF pos > 0 THEN pos - 1 ELSE pos

scroll_down(pos, len) == IF pos < SatSub(len, VIEWPORT) THEN pos + 1 ELSE pos

\* scroll_page_up that moves by one line, as scroll_up does
scroll_page_up_by_line(pos, len) == SatSub(pos, 1)

scroll_page_up(pos, len) == SatSub(pos, VIEWPORT)

\* scroll_page_down clamped to the log length instead of max_scroll
scroll_page_down_to_len(pos, len) == Min(pos + VIEWPORT, len)

scroll_page_down(pos, len) == Min(pos + VIEWPORT, SatSub(len, VIEWPORT))

scroll_to_top(pos, len) == 0

scroll_to_bottom(pos, len) == SatSub(len, VIEWPORT)

\* ----------------------------------------------------------------- state
VARIABLES
    logs,            \* App.logs
    puzzles,         \* App.puzzles: name -> Puzzle
    clients,         \* App.clients
    server_ready,    \* App.server_ready
    scroll_position, \* App.scroll_position
    should_quit,     \* App.should_quit
    appLock,         \* threads holding the guard of the App mutex
    child_process,   \* the Option<Child> in the child mutex: "None" or "Some"
    childLock,       \* threads holding the guard of the child mutex
    child,           \* the child process: "none", "running" or "killed"
    pc,              \* where each thread is
    line,            \* the line each pump has read and not yet released
    vocab,           \* the lines the child can write
    remaining,       \* how many lines the child still writes
    applied,         \* history: <<raw, pump>> of every finished push, in order
    readSeq,         \* history: the lines each pump has read, in order
    scroll_before,   \* history: scroll_position when the push of the call
                     \* that has just returned began
    key,             \* the key event the render thread has matched
    nav_before,      \* history: scroll_position before the key was handled
    twin             \* history: what the last process_log call gives when
                     \* it is made from the same state with the other
                     \* value of is_stderr

vars == <<logs, puzzles, clients, server_ready, scroll_position, should_quit,
          appLock, child_process, childLock, child, pc, line, vocab,
          remaining, applied, readSeq, scroll_before, key, nav_before,
          twin>>

appVars == <<logs, puzzles, clients, server_ready, scroll_position, should_quit>>
histVars == <<applied, readSeq, scroll_before, twin>>
envVars == <<vocab, remaining>>
childVars == <<child_process, childLock, child>>
keyVars == <<key, nav_before>>

\* ------------------------------------------------------------------ Init
\* App::new() and the Arc<Mutex<..>> values main builds before it spawns
Init ==
    /\ logs = <<>>
    /\ puzzles = <<>>
    /\ clients = {}
    /\ server_ready = FALSE
    /\ scroll_position = 0
    /\ should_quit = FALSE
    /\ appLock = {}
    /\ child_process = "None"
    /\ childLock = {}
    /\ child = "none"
    /\ pc = [t \in Threads |->
                IF t = "main" THEN "sample"
                ELSE IF t = "stdout" THEN "spawn" ELSE "unstarted"]
    /\ line = [p \in Pumps |-> NoLine]
    /\ \E prof \in ChildProfiles :
          /\ vocab = prof.vocab
          /\ remaining = [total |-> prof.total, stderr |-> prof.stderr]
    /\ applied = <<>>
    /\ readSeq = [p \in Pumps |-> <<>>]
    /\ scroll_before = 0
    /\ key = NoKey
    /\ nav_before = 0
    /\ twin = [puzzles |-> <<>>, clients |-> {}, server_ready |-> FALSE,
               scroll_position |-> 0, display |-> <<>>]

\* the process is alive until main returns
Alive == pc["main"] # "done"

\* a lock() that returns whether or not the guard is held
CanLockAnyway(holders) == TRUE

\* Mutex::lock returns only when no thread holds the guard
CanLock(holders) == holders = {}

Goto(t, l) == pc' = [pc EXCEPT ![t] = l]

\* ------------------------------------------------------------ supervisor
\* Command::new("python3")...spawn().expect(..), then the two take()s
SupervisorSpawn ==
    /\ Alive
    /\ pc["stdout"] = "spawn"
    /\ \/ /\ child' = "running"
          /\ Goto("stdout", "publish")
       \/ /\ child' = child
          /\ Goto("stdout", "panicked")
    /\ UNCHANGED <<appVars, appLock, child_process, childLock, line, envVars, histVars, keyVars>>

\* *child_process_clone.lock().unwrap() = Some(child)
SupervisorPublish ==
    /\ Alive
    /\ pc["stdout"] = "publish"
    /\ CanLock(childLock)
    /\ child_process' = "Some"
    /\ Goto("stdout", "start_stderr")
    /\ UNCHANGED <<appVars, appLock, childLock, child, line, envVars, histVars, keyVars>>

\* thread::spawn of the stderr pump; the supervisor goes on as stdout pump
SupervisorStartPumps ==
    /\ Alive
    /\ pc["stdout"] = "start_stderr"
    /\ pc' = [pc EXCEPT !["stdout"] = "read", !["stderr"] = "read"]
    /\ UNCHANGED <<appVars, appLock, childVars, line, envVars, histVars, keyVars>>

\* ----------------------------------------------------------------- pumps
CanWrite(p) ==
    /\ child = "running"
    /\ remaining.total > 0
    /\ p = "stderr" => remaining.stderr > 0

Wrote(p) ==
    remaining' = [total |-> remaining.total - 1,
                  stderr |-> IF p = "stderr" THEN remaining.stderr - 1
                             ELSE remaining.stderr]

\* lines() yields Ok(l)
PumpRead(p) ==
    /\ Alive
    /\ pc[p] = "read"
    /\ CanWrite(p)
    /\ \E l \in vocab :
          /\ line' = [line EXCEPT ![p] = l]
          /\ readSeq' = [readSeq EXCEPT ![p] = Append(@, l)]
    /\ Wrote(p)
    /\ Goto(p, "lock")
    /\ UNCHANGED <<appVars, appLock, childVars, vocab, applied, scroll_before,
                   twin, keyVars>>

\* PumpReadErr as a loop that ends at the first Err (let l = line?)
PumpReadErrStops(p) ==
    /\ Alive
    /\ pc[p] = "read"
    /\ CanWrite(p)
    /\ Wrote(p)
    /\ Goto(p, "eof")
    /\ UNCHANGED <<appVars, appLock, childVars, line, vocab, histVars, keyVars>>

\* lines() yields Err(_): if let Ok(l) = line skips it
PumpReadErr(p) ==
    /\ Alive
    /\ pc[p] = "read"
    /\ CanWrite(p)
    /\ Wrote(p)
    /\ UNCHANGED <<appVars, appLock, childVars, pc, line, vocab, histVars, keyVars>>

\* lines() yields None: the stream is closed
PumpEof(p) ==
    /\ Alive
    /\ pc[p] = "read"
    /\ child = "killed" \/ remaining.total = 0
          \/ (p = "stderr" /\ remaining.stderr = 0)
    /\ Goto(p, "eof")
    /\ UNCHANGED <<appVars, appLock, childVars, line, envVars, histVars, keyVars>>

\* let mut app = app.lock().unwrap()
PumpLock(p) ==
    /\ Alive
    /\ pc[p] = "lock"
    /\ CanLock(appLock)
    /\ appLock' = appLock \cup {p}
    /\ Goto(p, "classify")
    /\ UNCHANGED <<appVars, childVars, line, envVars, histVars, keyVars>>

\* process_log, part 1: readiness, puzzles, clients
PumpClassify(p) ==
    /\ Alive
    /\ pc[p] = "classify"
    /\ server_ready' = ReadyAfter(server_ready, Scanned(line[p], p = "stderr"))
    /\ puzzles' = PuzzlesAfter(puzzles, Scanned(line[p], p = "stderr"))
    /\ clients' = ClientsAfter(clients, Scanned(line[p], p = "stderr"))
    /\ twin' = [twin EXCEPT
                   !.server_ready =
                       ReadyAfter(server_ready, Scanned(line[p], p # "stderr")),
                   !.puzzles =
                       PuzzlesAfter(puzzles, Scanned(line[p], p # "stderr")),
                   !.clients =
                       ClientsAfter(clients, Scanned(line[p], p # "stderr"))]
    /\ Goto(p, "push")
    /\ UNCHANGED <<logs, scroll_position, should_quit, appLock, childVars,
                   line, envVars, applied, readSeq, scroll_before, keyVars>>

\* process_log, part 2: store the display line and auto-scroll
PumpPush(p) ==
    /\ Alive
    /\ pc[p] = "push"
    /\ logs' = Push(logs, DisplayLine(line[p], p = "stderr"))
    /\ scroll_position' = AutoScroll(scroll_position, Len(logs'))
    /\ applied' = Append(applied, <<line[p], p>>)
    /\ scroll_before' = scroll_position
    /\ twin' = [twin EXCEPT
                   !.display = DisplayLine(line[p], p # "stderr"),
                   !.scroll_position =
                       AutoScroll(scroll_position, Len(logs) + 1)]
    /\ Goto(p, "unlock")
    /\ UNCHANGED <<puzzles, clients, server_ready, should_quit, appLock,
                   childVars, line, envVars, readSeq, keyVars>>

\* PumpUnlock with the guard taken outside the loop and so never dropped
PumpUnlockKeepsGuard(p) ==
    /\ Alive
    /\ pc[p] = "unlock"
    /\ line' = [line EXCEPT ![p] = NoLine]
    /\ scroll_before' = 0
    /\ Goto(p, "read")
    /\ UNCHANGED <<appVars, appLock, childVars, envVars, applied, readSeq,
                   twin, keyVars>>

\* the guard is dropped at the end of the if let block
PumpUnlock(p) ==
    /\ Alive
    /\ pc[p] = "unlock"
    /\ appLock' = appLock \ {p}
    /\ line' = [line EXCEPT ![p] = NoLine]
    /\ scroll_before' = 0
    /\ Goto(p, "read")
    /\ UNCHANGED <<appVars, childVars, envVars, applied, readSeq, twin,
                   keyVars>>

\* ----------------------------------------------------------- render loop
\* sys.refresh_cpu_all(); sys.refresh_memory()
RenderSample ==
    /\ pc["main"] = "sample"
    /\ Goto("main", "tick")
    /\ UNCHANGED <<appVars, appLock, childVars, line, envVars, histVars, keyVars>>

\* let mut app = app.lock().unwrap() of the metrics block
RenderTickLock ==
    /\ pc["main"] = "tick"
    /\ CanLock(appLock)
    /\ appLock' = appLock \cup {"main"}
    /\ Goto("main", "ticking")
    /\ UNCHANGED <<appVars, childVars, line, envVars, histVars, keyVars>>

\* RenderTick without the break on should_quit
RenderTickNoBreak ==
    /\ pc["main"] = "ticking"
    /\ appLock' = appLock \ {"main"}
    /\ Goto("main", "draw")
    /\ UNCHANGED <<appVars, childVars, line, envVars, histVars, keyVars>>

\* the metrics block: store the metrics, break when should_quit is set
RenderTick ==
    /\ pc["main"] = "ticking"
    /\ appLock' = appLock \ {"main"}
    /\ Goto("main", IF should_quit THEN "cleanup" ELSE "draw")
    /\ UNCHANGED <<appVars, childVars, line, envVars, histVars, keyVars>>

\* terminal.draw(|f| ui(f, &app.lock().unwrap())): the lock of the closure
RenderDrawLock ==
    /\ pc["main"] = "draw"
    /\ CanLock(appLock)
    /\ appLock' = appLock \cup {"main"}
    /\ Goto("main", "drawing")
    /\ UNCHANGED <<appVars, childVars, line, envVars, histVars, keyVars>>

\* RenderDraw with the guard kept in a variable that outlives the frame
RenderDrawKeepsGuard ==
    /\ pc["main"] = "drawing"
    /\ Goto("main", "flush")
    /\ UNCHANGED <<appVars, appLock, childVars, line, envVars, histVars,
                   keyVars>>

\* ui() has built the frame from the App; the guard is dropped
RenderDraw ==
    /\ pc["main"] = "drawing"
    /\ appLock' = appLock \ {"main"}
    /\ Goto("main", "flush")
    /\ UNCHANGED <<appVars, childVars, line, envVars, histVars, keyVars>>

\* terminal.draw writes the frame to the terminal after the closure
RenderFlush ==
    /\ pc["main"] = "flush"
    /\ Goto("main", "poll")
    /\ UNCHANGED <<appVars, appLock, childVars, line, envVars, histVars, keyVars>>

\* event::poll(100ms) and event::read(): a key event arrived, or nothing
\* did and the loop starts over.  The key that was read stays local to the
\* render thread until the match, where the model draws it.
RenderPoll ==
    /\ pc["main"] = "poll"
    /\ \/ Goto("main", "key")
       \/ Goto("main", "sample")
    /\ UNCHANGED <<appVars, appLock, childVars, line, envVars, histVars,
                   keyVars>>

\* let mut app = app.lock().unwrap() of the key handler
RenderKeyLock ==
    /\ pc["main"] = "key"
    /\ CanLock(appLock)
    /\ appLock' = appLock \cup {"main"}
    /\ Goto("main", "handling")
    /\ UNCHANGED <<appVars, childVars, line, envVars, histVars, keyVars>>

\* the arm of match key.code for key k, which calls a scroll_* method
Navigate(k, new_pos) ==
    /\ pc["main"] = "handling"
    /\ key' = k
    /\ scroll_position' = new_pos
    /\ nav_before' = scroll_position
    /\ Goto("main", "handled")
    /\ UNCHANGED <<logs, puzzles, clients, server_ready, should_quit, appLock,
                   childVars, line, envVars, histVars>>

KeyUp == Navigate("Up", scroll_up(scroll_position, Len(logs)))
KeyDown == Navigate("Down", scroll_down(scroll_position, Len(logs)))
KeyPageUp == Navigate("PageUp", scroll_page_up(scroll_position, Len(logs)))
KeyPageDown == Navigate("PageDown", scroll_page_down(scroll_position, Len(logs)))
KeyHome == Navigate("Home", scroll_to_top(scroll_position, Len(logs)))
KeyEnd == Navigate("End", scroll_to_bottom(scroll_position, Len(logs)))

\* q, Esc or Ctrl-C: app.should_quit = true
KeyQuit ==
    /\ pc["main"] = "handling"
    /\ key' \in QuitKeys
    /\ should_quit' = TRUE
    /\ nav_before' = scroll_position
    /\ Goto("main", "handled")
    /\ UNCHANGED <<logs, puzzles, clients, server_ready, scroll_position,
                   appLock, childVars, line, envVars, histVars>>

\* any other key: the _ => {} arm
KeyOther ==
    /\ pc["main"] = "handling"
    /\ key' = "other"
    /\ nav_before' = scroll_position
    /\ Goto("main", "handled")
    /\ UNCHANGED <<appVars, appLock, childVars, line, envVars, histVars>>

\* the guard of the key handler is dropped at the end of the if let block
RenderKeyUnlock ==
    /\ pc["main"] = "handled"
    /\ appLock' = appLock \ {"main"}
    /\ key' = NoKey
    /\ nav_before' = 0
    /\ Goto("main", "sample")
    /\ UNCHANGED <<appVars, childVars, line, envVars, histVars>>

\* --------------------------------------------------------------- cleanup
\* child_process.lock().unwrap() and child_opt.take()
CleanupTake ==
    /\ pc["main"] = "cleanup"
    /\ CanLock(childLock)
    /\ child_process' = "None"
    /\ IF child_process = "Some"
       THEN /\ childLock' = childLock \cup {"main"}
            /\ Goto("main", "kill")
       ELSE /\ childLock' = childLock
            /\ Goto("main", "restore")
    /\ UNCHANGED <<appVars, appLock, child, line, envVars, histVars, keyVars>>

\* child.kill(); child.wait(); the guard is dropped at the end of the block
CleanupKill ==
    /\ pc["main"] = "kill"
    /\ child' = "killed"
    /\ childLock' = childLock \ {"main"}
    /\ Goto("main", "restore")
    /\ UNCHANGED <<appVars, appLock, child_process, line, envVars, histVars, keyVars>>

\* disable_raw_mode, LeaveAlternateScreen, show_cursor, Ok(())
CleanupRestore ==
    /\ pc["main"] = "restore"
    /\ Goto("main", "done")
    /\ UNCHANGED <<appVars, appLock, childVars, line, envVars, histVars, keyVars>>

\* ------------------------------------------------------------------ Next
Next ==
    \/ SupervisorSpawn
    \/ SupervisorPublish
    \/ SupervisorStartPumps
    \/ \E p \in Pumps : PumpRead(p)
    \/ \E p \in Pumps : PumpReadErr(p)
    \/ \E p \in Pumps : PumpEof(p)
    \/ \E p \in Pumps : PumpLock(p)
    \/ \E p \in Pumps : PumpClassify(p)
    \/ \E p \in Pumps : PumpPush(p)
    \/ \E p \in Pumps : PumpUnlock(p)
    \/ RenderSample
    \/ RenderTickLock
    \/ RenderTick
    \/ RenderDrawLock
    \/ RenderDraw
    \/ RenderFlush
    \/ RenderPoll
    \/ RenderKeyLock
    \/ KeyUp
    \/ KeyDown
    \/ KeyPageUp
    \/ KeyPageDown
    \/ KeyHome
    \/ KeyEnd
    \/ KeyQuit
    \/ KeyOther
    \/ RenderKeyUnlock
    \/ CleanupTake
    \/ CleanupKill
    \/ CleanupRestore

Spec == Init /\ [][Next]_vars

\* ------------------------------------------------------ fair specification
\* the child of the fair specification
LiveInit ==
    /\ Init
    /\ vocab = PlainLines
    /\ remaining = [total |-> MaxLive, stderr |-> MaxLive]

\* the steps of the render thread that wait for no lock
MainFree ==
    \/ RenderSample \/ RenderTick \/ RenderDraw \/ RenderFlush \/ RenderPoll
    \/ KeyUp \/ KeyDown \/ KeyPageUp \/ KeyPageDown \/ KeyHome \/ KeyEnd
    \/ KeyQuit \/ KeyOther \/ RenderKeyUnlock
    \/ CleanupKill \/ CleanupRestore

\* every thread keeps running; a thread blocked in lock() gets the guard
\* when the guard is free again and again.  Nothing is assumed about the
\* child writing or about keys arriving.
Fairness ==
    /\ WF_vars(MainFree)
    /\ SF_vars(RenderTickLock)
    /\ SF_vars(RenderDrawLock)
    /\ SF_vars(RenderKeyLock)
    /\ SF_vars(CleanupTake)
    /\ WF_vars(SupervisorSpawn \/ SupervisorStartPumps)
    /\ SF_vars(SupervisorPublish)
    /\ \A p \in Pumps :
          /\ SF_vars(PumpLock(p))
          /\ WF_vars(PumpClassify(p) \/ PumpPush(p) \/ PumpUnlock(p))

FairSpec == LiveInit /\ [][Next]_vars /\ Fairness

TypeOK ==
    /\ scroll_position \in Nat
    /\ server_ready \in BOOLEAN
    /\ should_quit \in BOOLEAN
    /\ appLock \subseteq Threads
    /\ childLock \subseteq Threads
    /\ child \in {"none", "running", "killed"}
    /\ child_process \in {"None", "Some"}

\* ---------------------------------------------------------------- claims
Names == {"n1", "n2"}

\* the pump p holds the guard and its process_log call has returned
Returned(p) == pc[p] = "unlock"

\* C1: in every reachable state the scroll cursor lies between 0 and
\* max(0, len(logs) - 10), whatever the interleaving of process_log calls
\* and navigation commands was.
C1_CursorInRange ==
    /\ scroll_position >= 0
    /\ scroll_position <= (IF Len(logs) > 10 THEN Len(logs) - 10 ELSE 0)

\* a log of 12 lines with the cursor moved off both ends by navigation
C1_Witness == Len(logs) = 12 /\ scroll_position = 1

\* a full-record line for name n has been applied
FullSeen(n) ==
    \E i \in 1..Len(applied) :
        /\ puzzle_dict_regex(applied[i][1]) # NoCaps
        /\ puzzle_dict_regex(applied[i][1])[1] = n

\* raw yields a registration event and no full-record event
RegisteredOnly(raw) ==
    puzzle_dict_regex(raw) = NoCaps /\ puzzle_reg_regex(raw) # NoCaps

\* C2: once a full-record line for a name has been applied, process_log of
\* a line that yields only a registration event for that name leaves the
\* stored address of the name unchanged.
C2_RegistrationKeepsAddress ==
    [][\A p \in Pumps : \A n \in Names :
          ( /\ pc[p] = "classify"
            /\ pc'[p] # "classify"
            /\ RegisteredOnly(line[p])
            /\ puzzle_reg_regex(line[p])[1] = n
            /\ FullSeen(n) )
          => /\ n \in DOMAIN puzzles
             /\ n \in DOMAIN puzzles'
             /\ puzzles'[n].ip = puzzles[n].ip
             /\ puzzles'[n].ip # WAITING]_vars

\* a registration line has been applied for a name whose full record was
\* applied before, and the name still has the address of the full record
C2_Witness ==
    \E p \in Pumps :
        /\ Returned(p)
        /\ RegisteredOnly(line[p])
        /\ Len(applied) = 2
        /\ puzzle_dict_regex(applied[1][1]) = <<"n1", "a1">>
        /\ puzzle_reg_regex(line[p]) = <<"n1">>
        /\ puzzles["n1"].ip = "a1"

\* C3: right after process_log of a line that matches the full-record
\* pattern with name N and address A, the peer map holds N with address A.
C3_FullRecordStored ==
    \A p \in Pumps :
        (Returned(p) /\ puzzle_dict_regex(line[p]) # NoCaps)
        => /\ puzzle_dict_regex(line[p])[1] \in DOMAIN puzzles
           /\ puzzles[puzzle_dict_regex(line[p])[1]].ip
                 = puzzle_dict_regex(line[p])[2]

\* a full record for n1 with address a2 applied over an entry for n1 that
\* held address a1
C3_Witness ==
    \E p \in Pumps :
        /\ Returned(p)
        /\ Len(applied) = 2
        /\ puzzle_dict_regex(applied[1][1]) = <<"n1", "a1">>
        /\ puzzle_dict_regex(line[p]) = <<"n1", "a2">>
        /\ puzzles["n1"].ip = "a2"

RECURSIVE PuzzlesOf(_)
\* the peer map that the applied lines give when applied one after another
PuzzlesOf(h) ==
    IF h = <<>> THEN <<>>
    ELSE PuzzlesAfter(PuzzlesOf(SubSeq(h, 1, Len(h) - 1)), h[Len(h)][1])

RECURSIVE ClientsOf(_)
\* the client set that the applied lines give
ClientsOf(h) ==
    IF h = <<>> THEN {}
    ELSE ClientsAfter(ClientsOf(SubSeq(h, 1, Len(h) - 1)), h[Len(h)][1])

\* the readiness flag that the applied lines give
ReadyOf(h) == \E i \in 1..Len(h) : contains_ready(h[i][1])

\* the log that the applied lines give
LogsOf(h) == [i \in 1..Len(h) |-> DisplayLine(h[i][1], h[i][2] = "stderr")]

\* every field shows the effects of exactly the lines that are in the log
WholeLinesOnly ==
    /\ logs = LogsOf(applied)
    /\ puzzles = PuzzlesOf(applied)
    /\ clients = ClientsOf(applied)
    /\ server_ready = ReadyOf(applied)

\* thread t holds the guard and is reading the App: the render thread in
\* one of its three critical sections, a pump that has just locked
Reading(t) ==
    IF t = "main" THEN pc[t] \in {"ticking", "drawing", "handling"}
    ELSE pc[t] = "classify"

\* C4: whenever the render thread or a pump reads the App under the lock,
\* each line is either in the log with all its peer, client and readiness
\* effects, or not in the log and without any of them.
C4_ApplyAtomic == \A t \in Threads : Reading(t) => WholeLinesOnly

\* the render thread draws a frame that shows an applied line and its
\* peer, while a pump waits for the lock with the next line
C4_Witness ==
    /\ pc["main"] = "drawing"
    /\ Len(logs) = 1
    /\ DOMAIN puzzles # {}
    /\ \E p \in Pumps : pc[p] = "lock"

\* C5: after every process_log call the cursor is len(logs) - 10 when the
\* log has more than 10 lines and 0 otherwise, whatever it was before.
C5_AutoFollow ==
    \A p \in Pumps :
        Returned(p) => scroll_position =
                          (IF Len(logs) > 10 THEN Len(logs) - 10 ELSE 0)

\* a line was appended while the cursor was scrolled up from the bottom,
\* and the cursor is at the bottom again
C5_Witness ==
    \E p \in Pumps :
        /\ Returned(p)
        /\ Len(logs) = 12
        /\ scroll_before = 0
        /\ scroll_position = 2

\* the indices of the log entries that pump p appended
IndicesOf(p) == {i \in 1..Len(applied) : applied[i][2] = p}

RECURSIVE Pick(_, _)
\* the entries of l at the indices in idx, in increasing order
Pick(l, idx) ==
    IF idx = {} THEN <<>>
    ELSE LET m == CHOOSE i \in idx : \A j \in idx : j <= i
         IN  Append(Pick(l, idx \ {m}), l[m])

\* C6: the log entries that came from one stream are, in log order, the
\* display lines of the lines read from that stream and applied so far, in
\* read order.
C6_StreamOrder ==
    /\ Len(logs) = Len(applied)
    /\ \A p \in Pumps :
          /\ Cardinality(IndicesOf(p)) <= Len(readSeq[p])
          /\ Pick(logs, IndicesOf(p)) =
                [i \in 1..Cardinality(IndicesOf(p)) |->
                    IF p = "stderr" THEN <<StderrTag>> \o readSeq[p][i]
                    ELSE readSeq[p][i]]

\* one stream has delivered two different lines and both are in the log
C6_Witness ==
    \E p \in Pumps :
        /\ Len(readSeq[p]) = 2
        /\ readSeq[p][1] # readSeq[p][2]
        /\ Cardinality(IndicesOf(p)) = 2

\* C7: the log is append-only: every step leaves the log unchanged or
\* appends one entry to it, and the steps that append are exactly the
\* pushes of process_log, one entry per call.
C7_AppendOnly ==
    [][/\ \/ logs' = logs
          \/ /\ Len(logs') = Len(logs) + 1
             /\ SubSeq(logs', 1, Len(logs)) = logs
             /\ \E p \in Pumps : pc[p] = "push" /\ pc'[p] = "unlock"
       /\ \A p \in Pumps :
             (pc[p] = "push" /\ pc'[p] = "unlock")
             => Len(logs') = Len(logs) + 1]_vars

\* a log of more than 10 lines that the render thread is navigating
C7_Witness == pc["main"] = "handling" /\ Len(logs) = 11

\* C8: derived facts only accumulate: no step resets server_ready, removes
\* a name from the peer map or removes an address from the client set.
C8_Monotone ==
    [][/\ server_ready => server_ready'
       /\ DOMAIN puzzles \subseteq DOMAIN puzzles'
       /\ clients \subseteq clients']_vars

\* readiness is still set after a later line without the announcement
C8_Witness ==
    /\ Len(applied) = 2
    /\ contains_ready(applied[1][1])
    /\ ~contains_ready(applied[2][1])
    /\ server_ready
    /\ \E p \in Pumps : Returned(p)

\* C9: a failed spawn of the child is fatal: once the spawn has failed the
\* render loop draws no further frame.
C9_SpawnFailureFatal ==
    [][pc["stdout"] = "panicked"
       => ~(pc["main"] = "draw" /\ pc'["main"] = "drawing")]_vars

\* C10: when main returns after a quit request, a child that was spawned
\* has been killed.
C10_ChildKilledAtExit ==
    (pc["main"] = "done" /\ child # "none") => child = "killed"

\* C11: after process_log of a line that matches the received-message
\* pattern with address A, the client set contains A, whatever else the
\* line matches.
C11_MessageClientAlways ==
    \A p \in Pumps :
        (Returned(p) /\ msg_client_regex(line[p]) # NoCaps)
        => msg_client_regex(line[p])[1] \in clients

\* C12: from any state, applying a raw line as stderr and applying it as
\* stdout give the same peer map, client set, readiness flag and cursor;
\* only the appended entry differs: the raw line for stdout, "[STDERR] "
\* followed by the raw line for stderr.
C12_StreamTagIndependent ==
    \A p \in Pumps :
        /\ pc[p] \in {"push", "unlock"}
           => /\ twin.puzzles = puzzles
              /\ twin.clients = clients
              /\ twin.server_ready = server_ready
        /\ Returned(p)
           => /\ twin.scroll_position = scroll_position
              /\ logs[Len(logs)] =
                    (IF p = "stderr" THEN <<StderrTag>> \o line[p] ELSE line[p])
              /\ twin.display =
                    (IF p = "stderr" THEN line[p] ELSE <<StderrTag>> \o line[p])

\* a stderr line that starts with an HTTP client address has been applied
C12_Witness ==
    /\ Returned("stderr")
    /\ http_client_regex(line["stderr"]) # NoCaps
    /\ http_client_regex(line["stderr"])[1] \in clients

\* the step is pump p consuming a line of its stream without reading it
\* successfully
FailedRead(p) ==
    /\ pc[p] = "read"
    /\ readSeq'[p] = readSeq[p]
    /\ IF p = "stderr" THEN remaining'.stderr < remaining.stderr
       ELSE /\ remaining'.total < remaining.total
            /\ remaining'.stderr = remaining.stderr

\* the stream of pump p is closed: the child was killed or writes no more
Closed(p) ==
    \/ child = "killed"
    \/ remaining.total = 0
    \/ p = "stderr" /\ remaining.stderr = 0

\* C13: a line that fails to read changes no field of the App and leaves
\* the pump in its read loop; a pump leaves the loop only when its stream
\* is closed.
C13_ReadErrorSkipped ==
    [][\A p \in Pumps :
          /\ FailedRead(p)
             => /\ appVars' = appVars
                /\ appLock' = appLock
                /\ pc'[p] = "read"
          /\ (pc[p] # "eof" /\ pc'[p] = "eof") => Closed(p)]_vars

\* the stderr pump has applied a line that it read after a failed read
C13_Witness ==
    /\ vocab = RichLines
    /\ Returned("stderr")
    /\ Len(readSeq["stderr"]) = 1
    /\ Len(logs) = 1
    /\ remaining.stderr < MaxRich - 1

\* max_cursor = max(0, len(logs) - 10)
MaxCursor == IF Len(logs) > 10 THEN Len(logs) - 10 ELSE 0

\* the render thread has run the match arm of key and still holds the guard
Handled(k) == pc["main"] = "handled" /\ key = k

C15_BoundaryIdempotent ==
    /\ (Handled("Up") /\ nav_before = 0) => scroll_position = 0
    /\ Handled("Home") => scroll_position = 0
    /\ (Handled("Down") /\ nav_before = MaxCursor) => scroll_position = MaxCursor
    /\ Handled("End") => scroll_position = MaxCursor

\* line_up has been handled at cursor 0 of a log longer than the viewport
C15_Witness ==
    /\ Handled("Up")
    /\ Len(logs) > 10
    /\ nav_before = 0
    /\ scroll_position = 0

\* C16: once should_quit is set it stays set, the render thread draws no
\* further frame and handles no further key, and main reaches its return;
\* it does so without waiting for a pump to finish.
C16_QuitTerminates ==
    /\ [][should_quit
          => /\ should_quit'
             /\ pc'["main"] \notin {"draw", "drawing", "flush", "poll", "key",
                                    "handling"}
             /\ pc'["main"] = "handled" => pc["main"] = "handled"]_vars
    /\ should_quit ~> pc["main"] = "done"

\* main has returned after a quit while a pump was still in its loop
C16_Witness ==
    /\ should_quit
    /\ pc["main"] = "done"
    /\ \E p \in Pumps : pc[p] \in {"read", "lock"}

\* C17: the render thread does not hold the App guard while it samples the
\* host metrics, renders the frame, writes it out or polls for input.
C17_RenderSlowOpsUnlocked ==
    pc["main"] \in {"sample", "drawing", "flush", "poll"}
    => "main" \notin appLock

\* C18: a pump holds the App guard only between reading a line and going
\* back to read the next: never while it waits in lines(), and never
\* without a line.
C18_PumpReadsUnlocked ==
    \A p \in Pumps :
        /\ pc[p] \in {"spawn", "publish", "start_stderr", "panicked",
                      "unstarted", "read", "lock", "eof"}
           => p \notin appLock
        /\ p \in appLock => line[p] # NoLine

\* a pump that has applied a line waits in lines() again while the other
\* pump holds the guard
C18_Witness ==
    \E p \in Pumps : \E q \in Pumps :
        /\ p # q
        /\ pc[p] = "read"
        /\ \E i \in 1..Len(applied) : applied[i][2] = p
        /\ q \in appLock

\* C19: for a line that matches both the full-record pattern (N, A) and
\* the registration pattern (M), process_log only upserts N with A: every
\* other entry of the peer map, M's included, is as it was.
C19_FirstMatchWins ==
    [][\A p \in Pumps :
          ( /\ pc[p] = "classify"
            /\ pc'[p] # "classify"
            /\ puzzle_dict_regex(line[p]) # NoCaps
            /\ puzzle_reg_regex(line[p]) # NoCaps )
          => /\ DOMAIN puzzles' = DOMAIN puzzles \cup {puzzle_dict_regex(line[p])[1]}
             /\ puzzles'[puzzle_dict_regex(line[p])[1]].ip
                   = puzzle_dict_regex(line[p])[2]
             /\ \A n \in DOMAIN puzzles' :
                   n # puzzle_dict_regex(line[p])[1] => puzzles'[n] = puzzles[n]]_vars

\* a line with a full record for n1 and a registration of n2 has been
\* applied, and the peer map has n1 and no n2
C19_Witness ==
    \E p \in Pumps :
        /\ Returned(p)
        /\ puzzle_dict_regex(line[p]) = <<"n1", "a2">>
        /\ puzzle_reg_regex(line[p]) = <<"n2">>
        /\ DOMAIN puzzles = {"n1"}
        /\ puzzles["n1"].ip = "a2"

\* thread t has called lock() on the App mutex and does not have the guard
Requesting(t) ==
    IF t = "main" THEN pc[t] \in {"tick", "draw", "key"} ELSE pc[t] = "lock"

\* no thread asks for one of the two locks while it holds the other
NoNestedLocks ==
    \A t \in Threads :
        /\ t \in childLock => ~Requesting(t)
        /\ t \in appLock => pc[t] \notin {"publish", "cleanup"}

\* C20 as stated: no thread asks for one lock while it holds the other, and
\* every thread that asks for the App lock gets it.
C20_LockAlwaysAcquired ==
    /\ []NoNestedLocks
    /\ \A t \in Threads : Requesting(t) ~> t \in appLock

\* C20 amended: no thread asks for one lock while it holds the other, and
\* every thread that asks for the App lock gets it unless main returns
\* first, which ends the process and the pump threads with it.
C20_LockAcquiredOrExit ==
    /\ []NoNestedLocks
    /\ \A t \in Threads :
          Requesting(t) ~> (t \in appLock \/ pc["main"] = "done")

\* one pump holds the guard while the other pump and the render thread
\* both wait for it
C20_Witness ==
    \E p \in Pumps : \E q \in Pumps :
        /\ p # q
        /\ p \in appLock
        /\ Requesting(q)
        /\ Requesting("main")
====
